---- MODULE Spec2Model ----
(***************************************************************************)
(* Model of src/clipdrop/static/js/clipboard.js: the browser-side          *)
(* controller of the ClipDrop clipboard page.  The file holds two          *)
(* immediately-invoked function expressions (lines 6-363 and 370-816);     *)
(* both run when the file is loaded, and each carries its own copy of      *)
(* every handler.  A handler copy is named by the number of its function   *)
(* expression: iife = 1 or iife = 2.                                       *)
(*                                                                         *)
(* Strings the code trims or compares are sequences of one-character       *)
(* strings; a missing attribute or a cancelled prompt is Null.             *)
(***************************************************************************)
EXTENDS Integers, Sequences, FiniteSets, Bags, TLC

\* ------------------------------------------------------------- bounds
\* runs of initClipboardHandlers on one page, the two of the file included
MaxInits == 4
\* user gestures (clicks, submits, key presses) in one page load
MaxGestures == 3

\* ------------------------------------------------------------ strings
\* The texts a user types into a field or a prompt: empty, blank, the name
\* folder 1 has, that name with a space before or after it, another name.
Strings == {<<>>, <<" ">>, <<"a">>, <<" ", "a">>, <<"a", " ">>, <<"a", "a">>}
Null == <<"null">>

RECURSIVE TrimStart(_)
TrimStart(s) == IF s # <<>> /\ Head(s) = " " THEN TrimStart(Tail(s)) ELSE s

RECURSIVE TrimEnd(_)
TrimEnd(s) ==
    IF s # <<>> /\ s[Len(s)] = " " THEN TrimEnd(SubSeq(s, 1, Len(s) - 1)) ELSE s

\* String.prototype.trim
Trim(s) == TrimEnd(TrimStart(s))

\* JavaScript truthiness of a string-or-null value
Truthy(s) == s # Null /\ s # <<>>

\* a || b on string-or-null values
OrElse(a, b) == IF Truthy(a) THEN a ELSE b

Last(s) == s[Len(s)]
Count(s, x) == Cardinality({i \in 1..Len(s) : s[i] = x})
IndexOf(s, x) == IF \E i \in 1..Len(s) : s[i] = x
                 THEN CHOOSE i \in 1..Len(s) : s[i] = x /\ \A j \in 1..(i - 1) : s[j] # x
                 ELSE 0
\* does event a occur in s, and every occurrence of b only after one of a
Before(s, a, b) ==
    \A j \in 1..Len(s) : s[j] = b => \E i \in 1..(j - 1) : s[i] = a

\* ------------------------------------------------- the rendered page
\* The server renders the page; the script never changes these attributes.
Items == 1..4
NullAttr == "<missing>"
DataFavorite(i) ==
    CASE i = 1 -> "true" [] i = 2 -> "false" [] i = 3 -> NullAttr [] OTHER -> "True"
DataKeep(i) ==
    CASE i = 1 -> "false" [] i = 2 -> "true" [] i = 3 -> "1" [] OTHER -> NullAttr

\* name.length > 30, name.substring(0, 30)
NameLimit == 30
ThisItem == <<"t", "h", "i", "s", " ", "i", "t", "e", "m">>
Ellipsis == <<".", ".", ".">>

\* The delete button of item i carries a data-name of i characters; the last
\* item's button has no data-name attribute.  The page shows items with an
\* empty name, a short one, names around the limit and the longest name.
MaxNameLen == 33
NameItems == {0, 1, NameLimit - 1, NameLimit, NameLimit + 1, MaxNameLen,
              MaxNameLen + 1}
DataName(i) == IF i > MaxNameLen THEN Null ELSE [k \in 1..i |-> ToString(k % 10)]

\* Folder 1 sits in a .folder-row with a .folder-link; folder 2's rename
\* button has no such row and no data-name attribute.
Folders == 1..2
FolderDataName(f) == IF f = 1 THEN <<"a">> ELSE Null
FolderHasRow(f) == f = 1
OriginalLink == [tag |-> "link", ed |-> 0, href |-> "/clipboard/folder",
                 html |-> "label", original |-> TRUE]

Kinds == {"create", "itemDelete", "favorite", "retention",
          "folderCreate", "folderRename", "folderDelete"}

\* A control of the page: a form, or a button of one item or folder.
Controls ==
    [kind : {"create", "folderCreate"}, target : {0}]
    \cup [kind : {"favorite", "retention"}, target : Items]
    \cup [kind : {"itemDelete", "folderDelete"}, target : {1}]
    \cup [kind : {"folderRename"}, target : Folders]

\* The copy button and the share button of an item.
CopyControls == [kind : {"copy", "share"}, target : {1}]

\* ------------------------------------------------------ server replies
NoMsg == Null
ServerMsg == <<"m">>
\* type: "json" a parsed object, "null" the JSON value null, "unparsable" a
\* body response.json() rejects, "rejected" a fetch that rejects
\* flag: the favorite field of a favorite response, the kept field of a
\* retention response; no other handler reads such a field
Responses(kind) ==
    [type : {"json"}, status : {"success"}, message : {NoMsg},
     flag : IF kind \in {"favorite", "retention"} THEN BOOLEAN ELSE {FALSE}]
    \cup [type : {"json"}, status : {"error"}, message : {NoMsg, <<>>, ServerMsg},
          flag : {FALSE}]
    \cup [type : {"null", "unparsable", "rejected"}, status : {"none"},
          message : {NoMsg}, flag : {FALSE}]

\* --------------------------------------------------------------- state
VARIABLES
    control,           \* the control the user works in this page load
    field,             \* value of the form's text field at the latest submit
    readyState,        \* document.readyState: "loading" or "interactive"
    loaded,            \* the script file has been executed
    dclQueue,          \* iifes whose init waits for DOMContentLoaded
    listeners,         \* per control: the iifes whose handler is bound, in order
    clipInit,          \* the iife whose init is window.ClipDrop.clipboard.init
    initCalls,         \* how often an initClipboardHandlers has run on this page
    showToast,         \* window.showToast is defined
    showConfirmModal,  \* window.showConfirmModal is defined
    runs,              \* bag of handler runs waiting for a modal answer or a response
    done,              \* the handler runs the latest step ended
    issued,            \* requests issued by the latest gesture
    timers,            \* pending setTimeout(() => location.reload())
    page,              \* "live", or "reloaded" once location.reload() ran
    gestures,          \* gestures made on the control and in its inline editors
    submitBtn,         \* the create form's submit button is loading and disabled
    row,               \* the folder's .folder-row: its link and inline editors
    editors,           \* inline editors created so far (closures of 650-735)
    clipboardApi,      \* navigator.clipboard is defined
    btnHtml,           \* innerHTML of the copy or share button
    btnClasses,        \* its classList
    dispatching,       \* listeners the current click has still to reach
    copyRuns,          \* copy and share listener runs, oldest first
    copyTimers,        \* pending 2000 ms timers, in the order they expire
    lastCopy,          \* the call of copyToClipboard that returned last
    textareas          \* temporary textareas of copyToClipboard in document.body

vars == <<initCalls, control, field, readyState, loaded, dclQueue, listeners, clipInit, showToast,
          showConfirmModal, runs, done, issued, timers, page, gestures,
          submitBtn, row, editors, clipboardApi, btnHtml, btnClasses,
          dispatching, copyRuns, copyTimers, lastCopy, textareas>>

copyVars == <<clipboardApi, btnHtml, btnClasses, dispatching, copyRuns,
              copyTimers, lastCopy, textareas>>

NoResp == [type |-> "none", status |-> "none", message |-> NoMsg, flag |-> FALSE]

\* One invocation of a listener (or of saveRename).  ev is what it did, in
\* order; raw is the field text a submit handler rejected; flag and name
\* are the payload of the request it issued; shown is the item name in the
\* confirmation message of an item delete.
NewRun(kind, iife, id) ==
    [kind |-> kind, iife |-> iife, id |-> id, via |-> "click", flag |-> FALSE,
     raw |-> Null, name |-> Null, pc |-> "start", ev |-> <<>>, toast |-> Null,
     ttype |-> "none", resp |-> NoResp, delay |-> 0, ed |-> 0, shown |-> Null]

Did(r, e) == [r EXCEPT !.ev = Append(@, e)]
End(r) == [r EXCEPT !.pc = "end"]

\* if (window.showToast) window.showToast(text, type)
ShowToast(r, text, type) ==
    IF showToast
    THEN [Did(r, "toast") EXCEPT !.toast = text, !.ttype = type]
    ELSE r

\* a handler that schedules the reload twice
SetTimeoutReloadTwice(r, d) == [Did(Did(r, "timer"), "timer") EXCEPT !.delay = d]

\* setTimeout(() => location.reload(), d)
SetTimeoutReload(r, d) == [Did(r, "timer") EXCEPT !.delay = d]

\* fetch(url, {method: 'POST', ...}) up to the await
Fetch(r) == [Did(r, "request") EXCEPT !.pc = "await"]

postJson(r) == Fetch(r)

\* ------------------------------------------------- texts and delays
\* success texts with the two texts of each toggle exchanged
SuccessTextSwapped(kind, resp) ==
    CASE kind = "favorite" ->
            IF resp.flag THEN <<"Removed from favorites">> ELSE <<"Added to favorites">>
      [] kind = "retention" ->
            IF resp.flag THEN <<"Retention restored">> ELSE <<"Kept indefinitely">>
      [] OTHER -> <<"Saved">>

SuccessText(kind, resp) ==
    CASE kind = "create" -> <<"Saved to clipboard!">>
      [] kind = "itemDelete" -> <<"Deleted!">>
      [] kind = "favorite" ->
            IF resp.flag THEN <<"Added to favorites">> ELSE <<"Removed from favorites">>
      [] kind = "retention" ->
            IF resp.flag THEN <<"Kept indefinitely">> ELSE <<"Retention restored">>
      [] kind = "folderCreate" -> <<"Folder created">>
      [] kind = "folderRename" -> <<"Folder renamed">>
      [] kind = "folderDelete" -> <<"Folder deleted">>

FallbackText(kind) ==
    CASE kind = "create" -> <<"Failed to save">>
      [] kind = "itemDelete" -> <<"Failed to delete">>
      [] kind = "favorite" -> <<"Failed to update favorite">>
      [] kind = "retention" -> <<"Failed to update retention">>
      [] kind = "folderCreate" -> <<"Failed to create folder">>
      [] kind = "folderRename" -> <<"Failed to rename folder">>
      [] kind = "folderDelete" -> <<"Failed to delete folder">>

ReloadDelay(r) ==
    CASE r.kind = "create" -> IF r.iife = 1 THEN 1000 ELSE 800
      [] r.kind = "itemDelete" -> 1000
      [] OTHER -> 500

\* ------------------------------------------ the response continuation
\* The code after `await` in every handler: try { result = await ...;
\* if (result.status === 'success') {...} else {...} } catch {...}
IsSuccess(resp) == resp.type = "json" /\ resp.status = "success"

\* fetch rejected, response.json() rejected, or result is null and
\* result.status throws: control reaches the catch block
Throws(resp) == resp.type # "json"

\* the handler holds a button it put into the loading state
HasLoadingButton(r) == (r.kind = "create" /\ r.iife = 2) \/ r.via = "inline"

\* an error branch that leaves the button as it is
clearButtonLoadingSkipped(r) == r

clearButtonLoading(r) == IF HasLoadingButton(r) THEN Did(r, "clearLoading") ELSE r

\* an error branch that ignores result.message
ErrorTextGeneric(r, resp) == FallbackText(r.kind)

ErrorText(r, resp) == OrElse(resp.message, FallbackText(r.kind))

\* a handler that sends its request again when it fails
OnResultRetry(r, resp) ==
    IF IsSuccess(resp)
    THEN SetTimeoutReload(
             ShowToast(End([r EXCEPT !.resp = resp]), SuccessText(r.kind, resp),
                       "success"), ReloadDelay(r))
    ELSE Fetch([r EXCEPT !.resp = resp])

OnResult(r, resp) ==
    LET r0 == End([r EXCEPT !.resp = resp])
    IN  IF Throws(resp)
        THEN ShowToast(clearButtonLoading(r0), FallbackText(r.kind), "error")
        ELSE IF IsSuccess(resp)
        THEN SetTimeoutReload(
                 ShowToast(r0, SuccessText(r.kind, resp), "success"), ReloadDelay(r))
        ELSE ShowToast(clearButtonLoading(r0), ErrorText(r, resp), "error")

\* ------------------------------------------------- listeners, sync part
\* st carries what one event dispatch can change while its listeners run:
\* [runs, done, issued, row, editors, btn].
Emit(st, r) ==
    [st EXCEPT !.runs = IF r.pc = "end" THEN @ ELSE @ (+) SetToBag({r}),
               !.done = IF r.pc = "end" THEN Append(@, r) ELSE @,
               !.issued = @ + Count(r.ev, "request")]

\* a form handler that forgets to trim
FormTextNoTrim(value) == IF value # Null THEN value ELSE <<>>

\* textArea ? textArea.value.trim() : ''   (value = Null: no such element)
FormText(value) == IF value # Null THEN Trim(value) ELSE <<>>

\* textArea?.focus(), only in the second copy
Focus(r, value) == IF r.iife = 2 /\ value # Null THEN Did(r, "focus") ELSE r

setButtonLoading(r) == Did(r, "setLoading")

handleClipboardForm(iife, value, st) ==
    LET r == NewRun("create", iife, 0)
    IN  IF ~Truthy(FormText(value))
        THEN Emit(st, End(Focus(ShowToast([r EXCEPT !.raw = value],
                                          <<"Please enter some text">>, "error"),
                                value)))
        ELSE IF iife = 2
        THEN [Emit(st, Fetch(setButtonLoading(r))) EXCEPT !.btn = TRUE]
        ELSE Emit(st, Fetch(r))

\* const doDelete = async () => { try { result = await postJson(...) ...
doDelete(r) == postJson(r)

\* a handler that deletes whatever confirm() returns
ConfirmDeleteUnguarded(r, answer) ==
    IF showConfirmModal
    THEN [Did(r, "modal") EXCEPT !.pc = "modal"]
    ELSE doDelete(Did(r, IF answer THEN "confirmYes" ELSE "confirmNo"))

\* a handler that asks with confirm() even when the modal exists
ConfirmDeleteNative(r, answer) ==
    IF answer THEN doDelete(Did(r, "confirmYes")) ELSE End(Did(r, "confirmNo"))

\* if (window.showConfirmModal) showConfirmModal({..., onConfirm: doDelete})
\* else if (confirm(...)) doDelete()
ConfirmDelete(r, answer) ==
    IF showConfirmModal
    THEN [Did(r, "modal") EXCEPT !.pc = "modal"]
    ELSE IF answer
    THEN doDelete(Did(r, "confirmYes"))
    ELSE End(Did(r, "confirmNo"))

\* a truncation that already cuts a name of exactly the limit
ItemNameEager(attr) ==
    LET name == OrElse(attr, ThisItem)
    IN  IF Len(name) >= NameLimit
        THEN SubSeq(name, 1, NameLimit) \o Ellipsis
        ELSE name

\* const name = button.getAttribute('data-name') || 'this item';
\* const itemName = name.length > 30 ? name.substring(0, 30) + '...' : name;
ItemName(attr) ==
    LET name == OrElse(attr, ThisItem)
    IN  IF Len(name) > NameLimit
        THEN SubSeq(name, 1, NameLimit) \o Ellipsis
        ELSE name

handleDeleteButtons(iife, item, answer, st) ==
    Emit(st, ConfirmDelete([NewRun("itemDelete", iife, item)
                              EXCEPT !.shown = ItemName(DataName(item))], answer))

handleFolderDelete(iife, folder, answer, st) ==
    Emit(st, ConfirmDelete(NewRun("folderDelete", iife, folder), answer))

\* a toggle that sends the recorded state itself
ToggleTargetSame(attr) == attr = "true"

\* const current = button.getAttribute(...) === 'true'; const target = !current
ToggleTarget(attr) == ~(attr = "true")

handleFavoriteToggles(iife, item, st) ==
    Emit(st, postJson([NewRun("favorite", iife, item)
                        EXCEPT !.flag = ToggleTarget(DataFavorite(item))]))

handleRetentionToggles(iife, item, st) ==
    Emit(st, postJson([NewRun("retention", iife, item)
                        EXCEPT !.flag = ToggleTarget(DataKeep(item))]))

\* const name = formData.get('name'); if (!name || !name.trim()) {...; return}
handleFolderCreate(iife, value, st) ==
    LET r == NewRun("folderCreate", iife, 0)
    IN  IF ~Truthy(value) \/ ~Truthy(Trim(value))
        THEN Emit(st, End(ShowToast([r EXCEPT !.raw = value],
                                    <<"Folder name is required">>, "error")))
        ELSE Emit(st, Fetch(r))

\* button.getAttribute('data-name') || ''
CurrentName(folder) == OrElse(FolderDataName(folder), <<>>)

\* first copy (276-302): newName = prompt('Rename folder', currentName)
handleFolderRenamePrompt(folder, answer, st) ==
    LET r == [Did(NewRun("folderRename", 1, folder), "prompt") EXCEPT !.via = "prompt"]
    IN  IF ~Truthy(answer) \/ ~Truthy(Trim(answer))
        THEN Emit(st, End(r))
        ELSE Emit(st, postJson([r EXCEPT !.name = Trim(answer)]))

\* submitFolderRename(folderId, newName), up to its await
submitFolderRename(r, newName) == postJson([r EXCEPT !.name = newName])

IsLink(el) == el.tag = "link"
EditElement(e) == [tag |-> "edit", ed |-> e, href |-> "", html |-> "", original |-> FALSE]

\* folderRow?.querySelector('.folder-link'): index of the first link, or 0
FirstLink(folder, rw) ==
    IF FolderHasRow(folder) /\ \E i \in 1..Len(rw) : IsLink(rw[i])
    THEN CHOOSE i \in 1..Len(rw) : IsLink(rw[i]) /\ \A j \in 1..(i - 1) : ~IsLink(rw[j])
    ELSE 0

\* a replaceWith that inserts the new node even when the old one is detached
ReplaceWithOrInsert(rw, old, new) ==
    IF \E i \in 1..Len(rw) : rw[i] = old
    THEN [i \in 1..Len(rw) |-> IF rw[i] = old THEN new ELSE rw[i]]
    ELSE Append(rw, new)

\* old.replaceWith(new): nothing happens when old has no parent
ReplaceWith(rw, old, new) ==
    [i \in 1..Len(rw) |-> IF rw[i] = old THEN new ELSE rw[i]]

\* second copy (648-737): prompt fallback, or the inline editor
handleFolderRenameInline(folder, answer, st) ==
    LET k == FirstLink(folder, st.row)
        e == Len(st.editors) + 1
    IN  IF k = 0
        THEN LET r == [Did(NewRun("folderRename", 2, folder), "prompt")
                        EXCEPT !.via = "fallback"]
             IN  IF Truthy(answer) /\ Truthy(Trim(answer))
                 THEN Emit(st, submitFolderRename(r, Trim(answer)))
                 ELSE Emit(st, End(r))
        ELSE [st EXCEPT
                !.editors = Append(@, [folder |-> folder,
                                       current |-> CurrentName(folder),
                                       input |-> CurrentName(folder),
                                       loading |-> FALSE,
                                       link |-> st.row[k]]),
                !.row = ReplaceWith(@, st.row[k], EditElement(e))]

\* a cancel that also aborts the requests its editor has in flight
cancelRenameAborting(e, st) ==
    LET ed == st.editors[e]
        restoredLink == [tag |-> "link", ed |-> 0,
                         href |-> IF ed.link.href # "" THEN ed.link.href ELSE "#",
                         html |-> ed.link.html, original |-> FALSE]
        own == {w \in BagToSet(st.runs) : w.via = "inline" /\ w.ed = e}
    IN  [st EXCEPT !.row = ReplaceWith(@, EditElement(e), restoredLink),
                   !.runs = [w \in BagToSet(@) \ own |-> CopiesIn(w, st.runs)],
                   !.editors[e].input = <<>>]

\* a cancel that removes the editor and puts back an empty link
cancelRenameEmpty(e, st) ==
    [st EXCEPT !.row = ReplaceWith(@, EditElement(e),
                                   [tag |-> "link", ed |-> 0, href |-> "#",
                                    html |-> "", original |-> FALSE]),
               !.editors[e].input = <<>>]

\* function cancelRename() (717-723)
cancelRename(e, st) ==
    LET ed == st.editors[e]
        restoredLink == [tag |-> "link", ed |-> 0,
                         href |-> IF ed.link.href # "" THEN ed.link.href ELSE "#",
                         html |-> ed.link.html, original |-> FALSE]
    IN  [st EXCEPT !.row = ReplaceWith(@, EditElement(e), restoredLink),
                   \* the detached input can no longer be typed into or read
                   !.editors[e].input = <<>>]

\* the name saveRename leaves alone: empty, or the one the folder has
Unchanged(newName, currentName) == ~Truthy(newName) \/ newName = currentName

\* async function saveRename() (688-715), up to its await
saveRename(e, st) ==
    LET ed == st.editors[e]
        newName == Trim(ed.input)
        r == [NewRun("folderRename", 2, ed.folder) EXCEPT !.via = "inline", !.ed = e]
    IN  IF Unchanged(newName, ed.current)
        THEN Emit(cancelRename(e, st), End(Did(r, "cancel")))
        ELSE [Emit(st, postJson(setButtonLoading([r EXCEPT !.name = newName])))
                EXCEPT !.editors[e].loading = TRUE]

\* ------------------------------------------------------ initialisation
\* One function expression's tail (352-362, 805-815): bind now, or at
\* DOMContentLoaded; then publish its init.  ld = [dcl, ls, init].
RunIife(iife, ld) ==
    [dcl |-> IF readyState = "loading" THEN Append(ld.dcl, iife) ELSE ld.dcl,
     ls |-> IF readyState = "loading" THEN ld.ls ELSE Append(ld.ls, iife),
     init |-> iife]

\* The browser executes the file: the first function expression, then the
\* second, in one task.
LoadScript ==
    /\ ~loaded /\ page = "live"
    /\ LET ld == RunIife(2, RunIife(1, [dcl |-> dclQueue, ls |-> listeners,
                                        init |-> clipInit]))
       IN  /\ dclQueue' = ld.dcl
           /\ listeners' = ld.ls
           /\ clipInit' = ld.init
    /\ loaded' = TRUE
    /\ initCalls' = initCalls + (IF readyState = "loading" THEN 0 ELSE 2)
    /\ UNCHANGED <<copyVars, control, field, readyState, showToast, showConfirmModal, runs, done, issued,
                   timers, page, gestures, submitBtn, row, editors>>

\* The document is parsed: the registered initClipboardHandlers run in order.
DOMContentLoaded ==
    /\ readyState = "loading" /\ page = "live"
    /\ readyState' = "interactive"
    /\ listeners' = listeners \o dclQueue
    /\ dclQueue' = <<>>
    /\ initCalls' = initCalls + Len(dclQueue)
    /\ UNCHANGED <<copyVars, control, field, loaded, clipInit, showToast, showConfirmModal, runs, done,
                   issued, timers, page, gestures, submitBtn, row, editors>>

\* a published init that binds a control only when that handler is not bound yet
CallInitOnce ==
    /\ page = "live" /\ loaded /\ dclQueue = <<>> /\ initCalls < MaxInits
    /\ listeners' = IF \E i \in 1..Len(listeners) : listeners[i] = clipInit
                     THEN listeners
                     ELSE Append(listeners, clipInit)
    /\ initCalls' = initCalls + 1
    /\ UNCHANGED <<copyVars, control, field, readyState, loaded, dclQueue, clipInit,
                   showToast, showConfirmModal, runs, done, issued, timers, page,
                   gestures, submitBtn, row, editors>>

\* Some script calls window.ClipDrop.clipboard.init(): the object was
\* assigned last by the second function expression (811-815), so this is its
\* initClipboardHandlers, and every handle... function adds a listener again.
CallInit ==
    /\ page = "live" /\ loaded /\ dclQueue = <<>> /\ initCalls < MaxInits
    /\ listeners' = Append(listeners, clipInit)
    /\ initCalls' = initCalls + 1
    /\ UNCHANGED <<copyVars, control, field, readyState, loaded, dclQueue, clipInit,
                   showToast, showConfirmModal, runs, done, issued, timers, page,
                   gestures, submitBtn, row, editors>>

\* ------------------------------------------------------------- gestures
Listener(kind, iife, target, answer, st) ==
    CASE kind = "create" -> handleClipboardForm(iife, target, st)
      [] kind = "itemDelete" -> handleDeleteButtons(iife, target, answer, st)
      [] kind = "favorite" -> handleFavoriteToggles(iife, target, st)
      [] kind = "retention" -> handleRetentionToggles(iife, target, st)
      [] kind = "folderCreate" -> handleFolderCreate(iife, target, st)
      [] kind = "folderRename" ->
            IF iife = 1
            THEN handleFolderRenamePrompt(target, answer, st)
            ELSE handleFolderRenameInline(target, answer, st)
      [] kind = "folderDelete" -> handleFolderDelete(iife, target, answer, st)

\* The event reaches the listeners of the control in the order they were added.
RECURSIVE Fire(_, _, _, _, _)
Fire(kind, target, ans, i, st) ==
    IF i > Len(listeners)
    THEN st
    ELSE Fire(kind, target, ans, i + 1, Listener(kind, listeners[i], target, ans[i], st))

Dom == [runs |-> runs, done |-> <<>>, issued |-> 0, row |-> row,
        editors |-> editors, btn |-> submitBtn]

Apply(st) ==
    /\ runs' = st.runs
    /\ done' = st.done
    /\ issued' = st.issued
    /\ row' = st.row
    /\ editors' = st.editors
    /\ submitBtn' = st.btn

Gesture(kind, target, ans) ==
    /\ page = "live" /\ listeners # <<>> /\ gestures < MaxGestures
    /\ control.kind = kind
    /\ kind \notin {"create", "folderCreate"} => control.target = target
    /\ Apply(Fire(kind, target, ans, 1, Dom))
    /\ gestures' = gestures + 1
    /\ field' = IF kind \in {"create", "folderCreate"} THEN target ELSE field
    /\ UNCHANGED <<initCalls, copyVars, control, readyState, loaded, dclQueue, listeners, clipInit, showToast,
                   showConfirmModal, timers, page>>

NoAnswer == [i \in 1..Len(listeners) |-> FALSE]
\* what each native confirm() returns; no confirm() runs when the modal exists
ConfirmAnswers ==
    IF showConfirmModal THEN {NoAnswer} ELSE [1..Len(listeners) -> BOOLEAN]
\* what each prompt() returns: the text, or null when cancelled; a listener
\* that opens the inline editor shows no prompt
Prompts(folder, i) ==
    IF listeners[i] = 2 /\ FirstLink(folder, row) # 0 THEN FALSE ELSE TRUE
PromptAnswers(folder) ==
    {ans \in [1..Len(listeners) -> Strings \cup {Null}] :
        \A i \in 1..Len(listeners) : ~Prompts(folder, i) => ans[i] = Null}

SubmitCreate(value) == ~submitBtn /\ Gesture("create", value, NoAnswer)
ClickDelete(item, ans) == Gesture("itemDelete", item, ans)
ClickFavorite(item) == Gesture("favorite", item, NoAnswer)
ClickRetention(item) == Gesture("retention", item, NoAnswer)
SubmitFolder(value) == Gesture("folderCreate", value, NoAnswer)
ClickRename(folder, ans) == Gesture("folderRename", folder, ans)
ClickFolderDelete(folder, ans) == Gesture("folderDelete", folder, ans)

\* The user answers a custom modal: confirming calls onConfirm.
ModalConfirm(r) ==
    /\ page = "live" /\ r.pc = "modal"
    /\ runs' = (runs (-) SetToBag({r})) (+) SetToBag({doDelete(Did(r, "confirmYes"))})
    /\ done' = <<>>
    /\ issued' = 1
    /\ UNCHANGED <<initCalls, copyVars, control, field, readyState, loaded, dclQueue, listeners, clipInit, showToast,
                   showConfirmModal, timers, page, gestures, submitBtn,
                   row, editors>>

ModalCancel(r) ==
    /\ page = "live" /\ r.pc = "modal"
    /\ runs' = runs (-) SetToBag({r})
    /\ done' = <<End(Did(r, "confirmNo"))>>
    /\ issued' = 0
    /\ UNCHANGED <<initCalls, copyVars, control, field, readyState, loaded, dclQueue, listeners, clipInit, showToast,
                   showConfirmModal, timers, page, gestures, submitBtn,
                   row, editors>>

\* ------------------------------------------------------ inline editor
Attached(e) == \E i \in 1..Len(row) : row[i] = EditElement(e)

EditGesture(e) ==
    /\ page = "live" /\ Attached(e) /\ gestures < MaxGestures
    /\ gestures' = gestures + 1
    /\ UNCHANGED <<initCalls, copyVars, control, field, readyState, loaded, dclQueue, listeners, clipInit, showToast,
                   showConfirmModal, timers, page>>

\* The input holds what the user typed when the gesture is made.
Typed(e, text) == [Dom EXCEPT !.editors[e].input = text]

\* saveBtn.addEventListener('click', saveRename): a disabled button gets no click
SaveClick(e, text) ==
    EditGesture(e) /\ ~editors[e].loading /\ Apply(saveRename(e, Typed(e, text)))

\* keydown with e.key === 'Enter'
EnterKey(e, text) == EditGesture(e) /\ Apply(saveRename(e, Typed(e, text)))

\* keydown with e.key === 'Escape'
EscapeKey(e) == EditGesture(e) /\ Apply(cancelRename(e, Dom))

\* cancelBtn.addEventListener('click', cancelRename)
CancelClick(e) == EditGesture(e) /\ Apply(cancelRename(e, Dom))

\* cancelRename runs again for an editor that is no longer in the row: its
\* listeners live on with the detached nodes, and a script can still
\* dispatch a click or a keydown to them.
RevertDetached(e) ==
    /\ page = "live" /\ ~Attached(e) /\ gestures < MaxGestures
    /\ gestures' = gestures + 1
    /\ Apply(cancelRename(e, Dom))
    /\ UNCHANGED <<initCalls, copyVars, control, field, readyState, loaded, dclQueue,
                   listeners, clipInit, showToast, showConfirmModal, timers, page>>

\* ------------------------------------------------- responses and reload
\* The response of a waiting run arrives (or its fetch fails) and the
\* handler resumes.
Respond(w, resp) ==
    /\ page = "live" /\ w.pc = "await"
    /\ LET r == OnResult(w, resp)
           cleared == Count(r.ev, "clearLoading") > 0
       IN  /\ done' = <<r>>
           /\ timers' = timers + Count(r.ev, "timer")
           /\ submitBtn' = IF cleared /\ r.kind = "create" THEN FALSE ELSE submitBtn
           /\ editors' = IF cleared /\ r.via = "inline"
                         THEN [editors EXCEPT ![r.ed].loading = FALSE]
                         ELSE editors
    /\ runs' = runs (-) SetToBag({w})
    /\ issued' = 0
    /\ UNCHANGED <<initCalls, copyVars, control, field, readyState, loaded, dclQueue, listeners, clipInit, showToast,
                   showConfirmModal, page, gestures, row>>

\* A reload timer fires: location.reload() abandons the page and all it holds.
ReloadFires ==
    /\ page = "live" /\ timers > 0
    /\ page' = "reloaded"
    /\ timers' = 0
    /\ runs' = EmptyBag
    /\ done' = <<>>
    /\ issued' = 0
    /\ editors' = <<>>
    /\ row' = <<>>
    /\ listeners' = <<>>
    /\ UNCHANGED <<initCalls, copyVars, control, field, readyState, loaded, dclQueue, clipInit, showToast,
                   showConfirmModal, gestures, submitBtn>>

\* ------------------------------------------------- copy and share
NoCopy == [primary |-> "none", exec |-> "none", ret |-> FALSE]
CheckIcon == "check"

\* What the two ways of writing did: primary is "ok" when
\* navigator.clipboard.writeText resolved, "failed" when it threw or
\* rejected; exec is what document.execCommand('copy') did on the fallback
\* path: returned "true", returned "false", or "throws".
CopyOutcomes ==
    [primary : {"ok"}, exec : {"none"}]
    \cup [primary : {"failed"}, exec : {"true", "false", "throws"}]

\* async function copyToClipboard(text): its return value
copyToClipboard(o) ==
    IF o.primary = "ok" THEN TRUE
    ELSE IF o.exec = "throws" THEN FALSE
    ELSE TRUE

\* a fallback whose catch block forgets document.body.removeChild(textarea)
TextareasAfterCopyLeaky(o, n) ==
    IF o.primary = "ok" THEN n
    ELSE IF o.exec = "throws" THEN n + 1
    ELSE (n + 1) - 1

\* copyToClipboard's effect on document.body: n temporary textareas before
\* the call, the result after it.  The fallback appends one (416) and
\* removes it after execCommand (420) or in the catch block (423).
TextareasAfterCopy(o, n) ==
    IF o.primary = "ok" THEN n
    ELSE LET appended == n + 1
         IN  IF o.exec = "throws" THEN appended - 1 ELSE appended - 1

\* The part of a copy or share listener that runs before its await: the
\* second copy reads button.innerHTML here, the first does not.
CopyListener(kind, iife) ==
    [kind |-> kind, iife |-> iife,
     saved |-> IF iife = 2 THEN btnHtml ELSE "unset",
     pc |-> "writing", ret |-> FALSE]

\* The user clicks the button: the event starts to visit the listeners.
CopyClick ==
    /\ page = "live" /\ listeners # <<>> /\ gestures < MaxGestures
    /\ control.kind \in {"copy", "share"}
    /\ dispatching = <<>>
    /\ \A i \in 1..Len(copyRuns) : copyRuns[i].pc = "writing"
    /\ dispatching' = listeners
    /\ gestures' = gestures + 1
    /\ UNCHANGED <<initCalls, control, field, readyState, loaded, dclQueue, listeners, clipInit,
                   showToast, showConfirmModal, runs, done, issued, timers, page,
                   submitBtn, row, editors, clipboardApi, btnHtml, btnClasses,
                   copyRuns, copyTimers, lastCopy, textareas>>

\* The next listener runs up to its await.  Without navigator.clipboard the
\* call of writeText throws at once, so copyToClipboard runs its fallback
\* and returns before the listener suspends.
NextListener(o) ==
    /\ page = "live" /\ dispatching # <<>>
    /\ LET r == CopyListener(control.kind, Head(dispatching))
       IN  IF clipboardApi
           THEN /\ o = [primary |-> "ok", exec |-> "none"]
                /\ copyRuns' = Append(copyRuns, r)
                /\ lastCopy' = lastCopy
                /\ textareas' = textareas
           ELSE /\ o.primary = "failed"
                /\ copyRuns' = Append(copyRuns, [r EXCEPT !.pc = "returned",
                                                          !.ret = copyToClipboard(o)])
                /\ lastCopy' = [primary |-> o.primary, exec |-> o.exec,
                                ret |-> copyToClipboard(o)]
                /\ textareas' = TextareasAfterCopy(o, textareas)
    /\ dispatching' = Tail(dispatching)
    /\ UNCHANGED <<initCalls, control, field, readyState, loaded, dclQueue, listeners, clipInit,
                   showToast, showConfirmModal, runs, done, issued, timers, page,
                   gestures, submitBtn, row, editors, clipboardApi, btnHtml,
                   btnClasses, copyTimers>>

\* The code after `await copyToClipboard(...)` of run r, whose call returned
\* success.  st = [html, classes, timers].
showButtonSuccess(r, st) ==
    [html |-> CheckIcon,
     classes |-> st.classes \cup {"btn-copy-success"},
     timers |-> Append(st.timers, [iife |-> 2, html |-> r.saved])]

CopySuccessFirst(r, st) ==
    [html |-> CheckIcon,
     classes |-> (st.classes \cup {"btn-success"}) \ {"btn-primary"},
     timers |-> Append(st.timers, [iife |-> 1, html |-> st.html])]

AfterCopy(r, success, st) ==
    IF ~success THEN st
    ELSE IF r.iife = 2 THEN showButtonSuccess(r, st)
    ELSE IF r.kind = "copy" THEN CopySuccessFirst(r, st)
    ELSE st

Button == [html |-> btnHtml, classes |-> btnClasses, timers |-> copyTimers]

SetButton(st) ==
    /\ btnHtml' = st.html
    /\ btnClasses' = st.classes
    /\ copyTimers' = st.timers

\* A listener whose copyToClipboard has returned resumes: a microtask, so it
\* may run between two listeners of one click and runs before any timer.
CopyResume ==
    /\ page = "live" /\ copyRuns # <<>> /\ Head(copyRuns).pc = "returned"
    /\ SetButton(AfterCopy(Head(copyRuns), Head(copyRuns).ret, Button))
    /\ copyRuns' = Tail(copyRuns)
    /\ UNCHANGED <<initCalls, control, field, readyState, loaded, dclQueue, listeners, clipInit,
                   showToast, showConfirmModal, runs, done, issued, timers, page,
                   gestures, submitBtn, row, editors, clipboardApi, dispatching,
                   lastCopy, textareas>>

\* writeText of run i settles: it resolves, or it rejects and the fallback
\* runs; copyToClipboard returns and the listener resumes.
WriteSettles(i, o) ==
    /\ page = "live" /\ dispatching = <<>>
    /\ copyRuns[i].pc = "writing"
    /\ SetButton(AfterCopy(copyRuns[i], copyToClipboard(o), Button))
    /\ lastCopy' = [primary |-> o.primary, exec |-> o.exec, ret |-> copyToClipboard(o)]
    /\ textareas' = TextareasAfterCopy(o, textareas)
    /\ copyRuns' = SubSeq(copyRuns, 1, i - 1) \o SubSeq(copyRuns, i + 1, Len(copyRuns))
    /\ UNCHANGED <<initCalls, control, field, readyState, loaded, dclQueue, listeners, clipInit,
                   showToast, showConfirmModal, runs, done, issued, timers, page,
                   gestures, submitBtn, row, editors, clipboardApi, dispatching>>

\* The oldest 2000 ms timer fires and restores the button.
CopyTimerFires ==
    /\ page = "live" /\ dispatching = <<>> /\ copyTimers # <<>>
    /\ \A i \in 1..Len(copyRuns) : copyRuns[i].pc = "writing"
    /\ LET t == Head(copyTimers)
       IN  /\ btnHtml' = t.html
           /\ btnClasses' = IF t.iife = 1
                             THEN (btnClasses \ {"btn-success"}) \cup {"btn-primary"}
                             ELSE btnClasses \ {"btn-copy-success"}
    /\ copyTimers' = Tail(copyTimers)
    /\ UNCHANGED <<initCalls, control, field, readyState, loaded, dclQueue, listeners, clipInit,
                   showToast, showConfirmModal, runs, done, issued, timers, page,
                   gestures, submitBtn, row, editors, clipboardApi, dispatching,
                   copyRuns, lastCopy, textareas>>

\* ------------------------------------------------------- specification
Init ==
    /\ control \in Controls
    /\ field = <<>>
    /\ readyState = "loading"
    /\ loaded = FALSE
    /\ dclQueue = <<>>
    /\ listeners = <<>>
    /\ clipInit = 0
    /\ initCalls = 0
    /\ showToast \in BOOLEAN
    /\ showConfirmModal \in
          IF control.kind \in {"itemDelete", "folderDelete"} THEN BOOLEAN ELSE {FALSE}
    /\ runs = EmptyBag
    /\ done = <<>>
    /\ issued = 0
    /\ timers = 0
    /\ page = "live"
    /\ gestures = 0
    /\ submitBtn = FALSE
    /\ row = IF control.kind = "folderRename" /\ FolderHasRow(control.target)
             THEN <<OriginalLink>> ELSE <<>>
    /\ editors = <<>>
    /\ clipboardApi = TRUE
    /\ btnHtml = "original"
    /\ btnClasses = {"btn-primary"}
    /\ dispatching = <<>>
    /\ copyRuns = <<>>
    /\ copyTimers = <<>>
    /\ lastCopy = NoCopy
    /\ textareas = 0

Next ==
    \/ LoadScript
    \/ DOMContentLoaded
    \/ \E value \in Strings \cup {Null} : SubmitCreate(value)
    \/ \E ans \in ConfirmAnswers : ClickDelete(control.target, ans)
    \/ ClickFavorite(control.target)
    \/ ClickRetention(control.target)
    \/ \E value \in Strings \cup {Null} : SubmitFolder(value)
    \/ \E ans \in PromptAnswers(control.target) : ClickRename(control.target, ans)
    \/ \E ans \in ConfirmAnswers : ClickFolderDelete(control.target, ans)
    \/ \E r \in BagToSet(runs) : ModalConfirm(r)
    \/ \E r \in BagToSet(runs) : ModalCancel(r)
    \/ \E e \in 1..Len(editors) : \E text \in Strings : SaveClick(e, text)
    \/ \E e \in 1..Len(editors) : \E text \in Strings : EnterKey(e, text)
    \/ \E e \in 1..Len(editors) : EscapeKey(e)
    \/ \E e \in 1..Len(editors) : CancelClick(e)
    \/ \E w \in BagToSet(runs) : \E resp \in Responses(w.kind) : Respond(w, resp)
    \/ ReloadFires

Spec == Init /\ [][Next]_vars

\* The page worked through its copy or share button.
InitCopy ==
    /\ control \in CopyControls
    /\ field = <<>>
    /\ readyState = "loading"
    /\ loaded = FALSE
    /\ dclQueue = <<>>
    /\ listeners = <<>>
    /\ clipInit = 0
    /\ initCalls = 0
    /\ showToast \in BOOLEAN
    /\ showConfirmModal = FALSE
    /\ runs = EmptyBag
    /\ done = <<>>
    /\ issued = 0
    /\ timers = 0
    /\ page = "live"
    /\ gestures = 0
    /\ submitBtn = FALSE
    /\ row = <<>>
    /\ editors = <<>>
    /\ clipboardApi \in BOOLEAN
    /\ btnHtml = "original"
    /\ btnClasses = {"btn-primary"}
    /\ dispatching = <<>>
    /\ copyRuns = <<>>
    /\ copyTimers = <<>>
    /\ lastCopy = NoCopy
    /\ textareas = 0

NextCopy ==
    \/ LoadScript
    \/ DOMContentLoaded
    \/ CopyClick
    \/ \E o \in CopyOutcomes : NextListener(o)
    \/ CopyResume
    \/ \E i \in 1..Len(copyRuns) : \E o \in CopyOutcomes : WriteSettles(i, o)
    \/ CopyTimerFires

SpecCopy == InitCopy /\ [][NextCopy]_vars

\* The page worked through the delete button of one of its items, the items
\* differing in the length of their data-name.
InitName ==
    /\ control \in [kind : {"itemDelete"}, target : NameItems]
    /\ field = <<>>
    /\ readyState = "loading"
    /\ loaded = FALSE
    /\ dclQueue = <<>>
    /\ listeners = <<>>
    /\ clipInit = 0
    /\ initCalls = 0
    /\ showToast = TRUE
    /\ showConfirmModal \in BOOLEAN
    /\ runs = EmptyBag
    /\ done = <<>>
    /\ issued = 0
    /\ timers = 0
    /\ page = "live"
    /\ gestures = 0
    /\ submitBtn = FALSE
    /\ row = <<>>
    /\ editors = <<>>
    /\ clipboardApi = TRUE
    /\ btnHtml = "original"
    /\ btnClasses = {"btn-primary"}
    /\ dispatching = <<>>
    /\ copyRuns = <<>>
    /\ copyTimers = <<>>
    /\ lastCopy = NoCopy
    /\ textareas = 0

NextName ==
    \/ LoadScript
    \/ DOMContentLoaded
    \/ \E ans \in ConfirmAnswers : ClickDelete(control.target, ans)
    \/ \E r \in BagToSet(runs) : ModalConfirm(r)
    \/ \E r \in BagToSet(runs) : ModalCancel(r)
    \/ \E w \in BagToSet(runs) : \E resp \in Responses(w.kind) : Respond(w, resp)
    \/ ReloadFires

SpecName == InitName /\ [][NextName]_vars

\* The page worked through a toggle while other scripts call the published
\* init again.
InitInit ==
    /\ control \in [kind : {"favorite", "retention"}, target : {1}]
    /\ field = <<>>
    /\ readyState = "loading"
    /\ loaded = FALSE
    /\ dclQueue = <<>>
    /\ listeners = <<>>
    /\ clipInit = 0
    /\ initCalls = 0
    /\ showToast \in BOOLEAN
    /\ showConfirmModal = FALSE
    /\ runs = EmptyBag
    /\ done = <<>>
    /\ issued = 0
    /\ timers = 0
    /\ page = "live"
    /\ gestures = 0
    /\ submitBtn = FALSE
    /\ row = <<>>
    /\ editors = <<>>
    /\ clipboardApi = TRUE
    /\ btnHtml = "original"
    /\ btnClasses = {"btn-primary"}
    /\ dispatching = <<>>
    /\ copyRuns = <<>>
    /\ copyTimers = <<>>
    /\ lastCopy = NoCopy
    /\ textareas = 0

NextInit ==
    \/ LoadScript
    \/ DOMContentLoaded
    \/ CallInit
    \/ ClickFavorite(control.target)
    \/ ClickRetention(control.target)
    \/ \E w \in BagToSet(runs) : \E resp \in Responses(w.kind) : Respond(w, resp)
    \/ ReloadFires

SpecInit == InitInit /\ [][NextInit]_vars

\* The page worked through the rename button of a folder that sits in a
\* .folder-row, where the second handler opens the inline editor.
InitRename ==
    /\ control \in [kind : {"folderRename"}, target : {f \in Folders : FolderHasRow(f)}]
    /\ field = <<>>
    /\ readyState = "loading"
    /\ loaded = FALSE
    /\ dclQueue = <<>>
    /\ listeners = <<>>
    /\ clipInit = 0
    /\ initCalls = 0
    /\ showToast \in BOOLEAN
    /\ showConfirmModal = FALSE
    /\ runs = EmptyBag
    /\ done = <<>>
    /\ issued = 0
    /\ timers = 0
    /\ page = "live"
    /\ gestures = 0
    /\ submitBtn = FALSE
    /\ row = <<OriginalLink>>
    /\ editors = <<>>
    /\ clipboardApi = TRUE
    /\ btnHtml = "original"
    /\ btnClasses = {"btn-primary"}
    /\ dispatching = <<>>
    /\ copyRuns = <<>>
    /\ copyTimers = <<>>
    /\ lastCopy = NoCopy
    /\ textareas = 0

NextRename ==
    \/ LoadScript
    \/ DOMContentLoaded
    \/ \E ans \in PromptAnswers(control.target) : ClickRename(control.target, ans)
    \/ \E e \in 1..Len(editors) : \E text \in Strings : SaveClick(e, text)
    \/ \E e \in 1..Len(editors) : \E text \in Strings : EnterKey(e, text)
    \/ \E e \in 1..Len(editors) : EscapeKey(e)
    \/ \E e \in 1..Len(editors) : CancelClick(e)
    \/ \E e \in 1..Len(editors) : RevertDetached(e)
    \/ \E w \in BagToSet(runs) : \E resp \in Responses(w.kind) : Respond(w, resp)
    \/ ReloadFires

SpecRename == InitRename /\ [][NextRename]_vars

\* ---------------------------------------------------------- properties
\* every handler run the state still holds: waiting, or ended by the latest step
Seen == BagToSet(runs) \cup {done[i] : i \in 1..Len(done)}
Ended == {done[i] : i \in 1..Len(done)}
Requests(r) == Count(r.ev, "request")
Answered(r) == r.resp.type # "none"
Succeeded(r) == r.resp.type = "json" /\ r.resp.status = "success"
BlankText(t) == t = Null \/ \A i \in 1..Len(t) : t[i] = " "

\* C1: a delete handler (item or folder) issues its POST only after its
\* confirmation was answered positively (onConfirm called, or confirm()
\* returned true); a handler whose confirmation was declined issues no
\* request, and a click all of whose confirmations were declined issues none.
C1_DeleteAfterConfirm ==
    /\ \A r \in Seen :
          r.kind \in {"itemDelete", "folderDelete"} =>
             /\ Before(r.ev, "confirmYes", "request")
             /\ Count(r.ev, "confirmNo") > 0 => Requests(r) = 0
    /\ (/\ control.kind \in {"itemDelete", "folderDelete"}
        /\ Len(done) = Len(listeners)
        /\ \A i \in 1..Len(done) : Count(done[i].ev, "confirmNo") > 0) => issued = 0

\* one listener of a click was declined, another was confirmed and has sent
C1_Witness ==
    /\ \E r \in Ended : r.kind = "folderDelete" /\ Last(r.ev) = "confirmNo"
    /\ \E w \in BagToSet(runs) :
          w.kind = "folderDelete" /\ Last(w.ev) = "request" /\ w.pc = "await"

\* C2: submitting the create form with an empty, blank or missing
\* clipboard_data field issues no request and leaves the submit button out
\* of the loading state; the handler ends at once, having only shown the
\* validation error (when a toast function exists): no reload, no loading.
C2_BlankCreateRejected ==
    control.kind = "create" =>
       /\ BlankText(field) => issued = 0 /\ ~submitBtn
       /\ \A r \in Ended :
             ~Answered(r) =>
                /\ BlankText(r.raw)
                /\ Requests(r) = 0
                /\ Count(r.ev, "timer") = 0
                /\ Count(r.ev, "setLoading") = 0
                /\ showToast => r.toast = <<"Please enter some text">> /\ r.ttype = "error"

\* a whitespace-only text was submitted and both listeners rejected it
C2_Witness ==
    /\ control.kind = "create" /\ field = <<" ">> /\ showToast
    /\ Len(done) = 2
    /\ \A i \in 1..2 : done[i].raw = <<" ">> /\ done[i].toast = <<"Please enter some text">>
    /\ runs = EmptyBag

\* C3: no rename request is sent when the submitted name, trimmed, is empty
\* or is the folder's original name: on the prompt handler, the prompt
\* fallback and the inline editor, no request carries such a name.
C3_RenameNoopClaim ==
    \A r \in Seen :
       (r.kind = "folderRename" /\ Requests(r) > 0) =>
          r.name # <<>> /\ r.name # CurrentName(r.id)

\* C5: a favorite toggle sends the negation of data-favorite === 'true':
\* false for the value 'true', true for any other or missing value; the
\* retention toggle does the same with data-keep.
C5_ToggleSendsNegation ==
    \A r \in Seen :
       r.kind \in {"favorite", "retention"} =>
          LET attr == IF r.kind = "favorite" THEN DataFavorite(r.id) ELSE DataKeep(r.id)
          IN  /\ Requests(r) = 1
              /\ attr = "true" => r.flag = FALSE
              /\ attr # "true" => r.flag = TRUE

\* a toggle without its data attribute has asked for true, one with 'true' for false
C5_Witness ==
    \E w \in BagToSet(runs) :
       /\ w.pc = "await"
       /\ \/ w.kind = "favorite" /\ DataFavorite(w.id) = NullAttr /\ w.flag
          \/ w.kind = "retention" /\ DataKeep(w.id) = "true" /\ ~w.flag

\* C6: in every mutation handler a response that is not a success (another
\* status, an unparsable or null body, a rejected fetch) schedules no reload
\* and shows, when a toast function exists, an error toast with the
\* server's message if it sent a non-empty one and the handler's fallback
\* text otherwise.
C6_FailureHandled ==
    \A r \in Ended :
       (Answered(r) /\ ~Succeeded(r)) =>
          /\ Count(r.ev, "timer") = 0
          /\ showToast =>
                /\ r.ttype = "error"
                /\ r.toast = IF r.resp.type = "json" /\ r.resp.message \notin {NoMsg, <<>>}
                             THEN r.resp.message
                             ELSE FallbackText(r.kind)
          /\ ~showToast => r.toast = Null

\* an inline rename failed with a message from the server, which was shown
C6_Witness ==
    \E r \in Ended :
       /\ r.kind = "folderRename" /\ r.via = "inline"
       /\ r.resp.status = "error" /\ r.resp.message = ServerMsg
       /\ r.toast = ServerMsg /\ r.ttype = "error"

\* C7: a handler that receives a success response schedules exactly one
\* reload, as the last thing it does and after its success toast; no
\* handler schedules a reload before or without a success response.
C7_ReloadOnSuccessOnly ==
    /\ \A r \in Ended :
          Succeeded(r) =>
             /\ Count(r.ev, "timer") = 1
             /\ Last(r.ev) = "timer"
             /\ showToast => /\ Count(r.ev, "toast") = 1
                             /\ Before(r.ev, "toast", "timer")
                             /\ r.ttype = "success"
    /\ \A r \in Seen : Count(r.ev, "timer") > 0 => Succeeded(r)

\* a create request succeeded: its toast was shown and its reload is pending
C7_Witness ==
    /\ timers > 0
    /\ \E r \in Ended :
          /\ r.kind = "create" /\ Succeeded(r)
          /\ r.toast = <<"Saved to clipboard!">> /\ Count(r.ev, "timer") = 1

\* C8: one handler run issues at most one request, whatever its outcome.
C8_NoRetry == \A r \in Seen : Requests(r) <= 1

\* a request failed in the network and its handler ended with that one request
C8_Witness ==
    \E r \in Ended : r.resp.type = "rejected" /\ Requests(r) = 1 /\ r.pc = "end"

\* C9: once the file is loaded and the document parsed, every control has
\* its handler bound exactly once, and one gesture issues at most one request.
C9_BoundOnceClaim ==
    (loaded /\ readyState # "loading" /\ page = "live") =>
       Len(listeners) = 1 /\ issued <= 1

\* C4: copyToClipboard returns true exactly when the primary write succeeded
\* or the legacy copy command reported that it copied.
C4_CopyResultClaim ==
    lastCopy # NoCopy =>
       (lastCopy.ret <=> (lastCopy.primary = "ok" \/ lastCopy.exec = "true"))

\* C10: once no copy is in flight and every 2000 ms timer has fired, the
\* copy button has the content and the classes it had before the first click.
C10_CopyRevertsClaim ==
    (/\ control.kind = "copy"
     /\ dispatching = <<>> /\ copyRuns = <<>> /\ copyTimers = <<>>) =>
        btnHtml = "original" /\ btnClasses = {"btn-primary"}

\* C11: in the create handler that has a loading state (the second one) the
\* submit button is disabled and loading as long as that handler's request
\* is in flight; a request that ends in a server-reported failure or a
\* network error re-enables it; after a success it stays disabled: the
\* button is re-enabled only by a step that ends such a request in failure.
C11_SubmitLoading ==
    /\ [](control.kind = "create" =>
            /\ \A w \in BagToSet(runs) :
                  (w.iife = 2 /\ w.pc = "await") => submitBtn
            /\ \A r \in Ended :
                  (r.iife = 2 /\ Answered(r)) =>
                     IF Succeeded(r)
                     THEN submitBtn /\ Count(r.ev, "clearLoading") = 0
                     ELSE ~submitBtn /\ Count(r.ev, "clearLoading") = 1)
    /\ [][(submitBtn /\ ~submitBtn') =>
             \E r \in {done'[i] : i \in 1..Len(done')} :
                r.kind = "create" /\ r.iife = 2 /\ Answered(r) /\ ~Succeeded(r)]_vars

\* the second handler's request was rejected and the button is enabled
\* again, while the first handler's request is still in flight
C11_Witness ==
    /\ control.kind = "create" /\ ~submitBtn
    /\ \E r \in Ended : r.iife = 2 /\ r.resp.type = "rejected"
    /\ \E w \in BagToSet(runs) : w.iife = 1 /\ w.pc = "await"

\* the requests and reload timers of a run, in order
NetEvents(r) == SelectSeq(r.ev, LAMBDA e : e \in {"request", "timer"})
\* what a run has sent and scheduled, given only where it stands and what
\* the server answered
ExpectedNet(r) ==
    CASE r.pc = "await" -> <<"request">>
      [] r.pc = "end" /\ Succeeded(r) -> <<"request", "timer">>
      [] r.pc = "end" /\ Answered(r) /\ ~Succeeded(r) -> <<"request">>
      [] OTHER -> <<>>

\* C12: the requests and reloads of every handler run are fixed by the
\* run's position and the server's answer, the same with and without
\* window.showToast; without it the run only lacks its toast.  A delete
\* handler opens the modal and calls no confirm() when
\* window.showConfirmModal exists, and calls confirm() when it does not.
C12_OptionalCollaborators ==
    \A r \in Seen :
       /\ NetEvents(r) = ExpectedNet(r)
       /\ Count(r.ev, "toast") = IF showToast /\ r.toast # Null THEN 1 ELSE 0
       /\ ~showToast => r.toast = Null /\ r.ttype = "none"
       /\ (showToast /\ Answered(r)) => r.toast # Null
       /\ r.kind \in {"itemDelete", "folderDelete"} =>
             IF showConfirmModal
             THEN r.ev[1] = "modal"
             ELSE Count(r.ev, "modal") = 0 /\ r.ev[1] \in {"confirmYes", "confirmNo"}

\* with the modal and without a toast function a confirmed delete succeeded:
\* request and reload happened, no toast
C12_Witness ==
    /\ showConfirmModal /\ ~showToast /\ timers > 0
    /\ \E r \in Ended :
          r.kind = "itemDelete" /\ r.ev = <<"modal", "confirmYes", "request", "timer">>

\* the row holds one folder link with the content and href of the rendered
\* one, and no inline editor
RowReverted(rw) ==
    /\ Len(rw) = 1 /\ IsLink(rw[1])
    /\ rw[1].html = OriginalLink.html /\ rw[1].href = OriginalLink.href
\* the texts the input of editor e can have held when a gesture left the
\* editors as eds: the text it holds now, or any when the input is detached
TextsLeft(e, eds) ==
    IF e > Len(eds) THEN {}
    ELSE {t \in Strings : eds[e].input = t \/ eds[e].input = <<>>}
NewRuns(old, new) == {r \in BagToSet(new) : CopiesIn(r, new) > CopiesIn(r, old)}

\* C13: on the inline editor Escape and a cancel-click revert: the row again
\* holds a folder link with the original content and href, the editor is
\* gone and the step issues no request.  Enter and a save-click commit: when
\* the trimmed input is non-empty and differs from the folder's name the
\* step issues one rename request carrying the trimmed input and the editor
\* stays; otherwise the step reverts as a cancel does.
C13_InlineCommitRevert ==
    [][\A e \in 1..Len(editors) :
          /\ (EscapeKey(e) \/ CancelClick(e)) =>
                /\ RowReverted(row')
                /\ issued' = 0 /\ runs' = runs /\ done' = <<>>
          /\ \A text \in TextsLeft(e, editors') :
                (SaveClick(e, text) \/ EnterKey(e, text)) =>
                   IF Trim(text) = <<>> \/ Trim(text) = CurrentName(editors[e].folder)
                   THEN /\ RowReverted(row')
                        /\ issued' = 0 /\ runs' = runs
                   ELSE /\ row' = row
                        /\ issued' = 1
                        /\ \E r \in NewRuns(runs, runs') :
                              /\ r.via = "inline" /\ r.name = Trim(text)
                              /\ r.ev = <<"setLoading", "request">>
                              /\ runs' = runs (+) SetToBag({r})]_vars

\* a rename was committed with a padded new name and is in flight, and the
\* editor was then left with Escape: the link is back, restored by the script
C13_Witness ==
    /\ page = "live" /\ RowReverted(row) /\ ~row[1].original
    /\ done = <<>> /\ issued = 0
    /\ \E w \in BagToSet(runs) : w.via = "inline" /\ w.name = <<"a", "a">>

\* C14: the item name in the delete confirmation is 'this item' when
\* data-name is missing or empty, data-name itself when it has 1 to 30
\* characters, and its first 30 characters followed by '...' when it is
\* longer; it never has more than 33 characters.
C14_ShownName ==
    \A r \in Seen :
       r.kind = "itemDelete" =>
          LET a == DataName(r.id)
          IN  /\ (a = Null \/ a = <<>>) => r.shown = ThisItem
              /\ (a # Null /\ Len(a) \in 1..30) => r.shown = a
              /\ (a # Null /\ Len(a) > 30) =>
                    /\ Len(r.shown) = 33
                    /\ \A i \in 1..30 : r.shown[i] = a[i]
                    /\ \A i \in 31..33 : r.shown[i] = "."
              /\ Len(r.shown) <= 33

\* the modal is open for an item whose name has 31 characters, shown cut
C14_Witness ==
    \E w \in BagToSet(runs) :
       /\ w.kind = "itemDelete" /\ w.pc = "modal"
       /\ Len(DataName(w.id)) = 31 /\ Len(w.shown) = 33 /\ w.shown[33] = "."

\* C15: a favorite request answered with success shows 'Added to favorites'
\* when the response's favorite field is true and 'Removed from favorites'
\* otherwise, whatever value the click asked for, and schedules a reload;
\* retention shows 'Kept indefinitely' for a true kept field and
\* 'Retention restored' otherwise.
C15_ToggleToastFollowsServer ==
    \A r \in Ended :
       (r.kind \in {"favorite", "retention"} /\ Succeeded(r)) =>
          /\ Count(r.ev, "timer") = 1 /\ r.delay = 500
          /\ showToast =>
                /\ r.ttype = "success"
                /\ r.toast =
                      IF r.kind = "favorite"
                      THEN (IF r.resp.flag THEN <<"Added to favorites">>
                                           ELSE <<"Removed from favorites">>)
                      ELSE (IF r.resp.flag THEN <<"Kept indefinitely">>
                                           ELSE <<"Retention restored">>)

\* the click asked to keep the item, the server answered kept = false
C15_Witness ==
    \E r \in Ended :
       /\ r.kind = "retention" /\ Succeeded(r) /\ r.flag /\ ~r.resp.flag
       /\ r.toast = <<"Retention restored">> /\ timers > 0

\* C16: every run of initClipboardHandlers, a repeated call of the published
\* init included, adds one listener to the control: once the deferred runs
\* are done the control has as many listeners as there were runs, and one
\* click on a toggle then starts that many handler runs and issues that many
\* requests.
C16_InitNotIdempotent ==
    /\ []((page = "live" /\ loaded /\ dclQueue = <<>>) => Len(listeners) = initCalls)
    /\ [][(ClickFavorite(control.target) \/ ClickRetention(control.target)) =>
             /\ issued' = initCalls
             /\ BagCardinality(runs') = BagCardinality(runs) + initCalls]_vars

\* after one more call of init a click on the favorite toggle sent three requests
C16_Witness ==
    /\ control.kind = "favorite" /\ initCalls = 3
    /\ issued = 3 /\ BagCardinality(runs) >= 3

\* C17: a folder-create submit whose name field is missing, empty or blank
\* sends no request, schedules no reload and shows 'Folder name is
\* required'; a submit with a non-blank name issues exactly one POST.
C17_FolderCreateClaim ==
    control.kind = "folderCreate" =>
       /\ BlankText(field) =>
             /\ issued = 0
             /\ \A r \in Ended :
                   /\ Requests(r) = 0 /\ Count(r.ev, "timer") = 0
                   /\ showToast => r.toast = <<"Folder name is required">>
       /\ (~BlankText(field) /\ done = <<>> /\ runs # EmptyBag /\ issued > 0) =>
             issued = 1

\* C18: the share button shows the success icon after a successful copy and
\* has its original content and classes again once the 2000 ms timers have
\* fired; a copy that failed on both paths leaves the button unchanged.
C18_ShareClaim ==
    control.kind = "share" =>
       /\ (dispatching = <<>> /\ copyRuns = <<>> /\ copyTimers = <<>>) =>
             btnHtml = "original" /\ btnClasses = {"btn-primary"}
       /\ (/\ gestures = 1 /\ ~clipboardApi
           /\ dispatching = <<>> /\ copyRuns = <<>>
           /\ lastCopy.primary = "failed" /\ lastCopy.exec # "true") =>
             btnHtml = "original" /\ copyTimers = <<>>

\* C19: k clicks on one toggle issue k requests: each click issues one, so
\* no more requests are in flight than clicks were made; and every request
\* carries the negation of the attribute value the page was rendered with,
\* whatever responses arrived between the clicks.
C19_ToggleClicksClaim ==
    control.kind \in {"favorite", "retention"} =>
       /\ \A r \in Seen :
             r.flag = ~((IF r.kind = "favorite" THEN DataFavorite(r.id)
                                                ELSE DataKeep(r.id)) = "true")
       /\ issued <= 1
       /\ BagCardinality(runs) <= gestures

\* C20: one inline editor never has two rename requests in flight.
C20_OneInlineRequestClaim ==
    \A e \in 1..Len(editors) :
       LET ws == {w \in BagToSet(runs) : w.via = "inline" /\ w.ed = e /\ w.pc = "await"}
       IN  Cardinality(ws) <= 1 /\ \A w \in ws : CopiesIn(w, runs) = 1

\* C21: the folder row always holds exactly one element, a folder link or
\* one inline editor, never two links and never two editors; and a gesture
\* made while an editor is open (a further rename click included) creates
\* no editor.
C21_RowLinkOrEditor ==
    /\ [](page = "live" =>
            /\ Len(row) = 1
            /\ \/ IsLink(row[1])
               \/ \E e \in 1..Len(editors) : row[1] = EditElement(e))
    /\ [][(gestures' = gestures + 1 /\ \E e \in 1..Len(editors) : Attached(e)) =>
             Len(editors') = Len(editors)]_vars

\* a save is in flight and Escape has put the link back: one link, no editor
C21_Witness ==
    /\ page = "live" /\ Len(row) = 1 /\ IsLink(row[1]) /\ ~row[1].original
    /\ \E w \in BagToSet(runs) : w.via = "inline" /\ w.pc = "await"

\* C22: the save button of an inline editor is loading and disabled exactly
\* while a rename request of that editor is in flight: a failure re-enables
\* it, after a success it stays disabled, and a commit that is a no-op never
\* sets it.
C22_SaveLoadingClaim ==
    \A e \in 1..Len(editors) :
       /\ (\E w \in BagToSet(runs) : w.via = "inline" /\ w.ed = e /\ w.pc = "await") =>
             editors[e].loading
       /\ \A r \in Ended :
             (r.via = "inline" /\ r.ed = e) =>
                /\ (Answered(r) /\ ~Succeeded(r)) => ~editors[e].loading
                /\ Succeeded(r) => editors[e].loading
                /\ ~Answered(r) => Count(r.ev, "setLoading") = 0

\* C23: copyToClipboard leaves no temporary textarea in document.body:
\* none is inserted when the primary write succeeds, and the fallback's
\* textarea is removed before the function returns, whether the copy
\* command returned or threw.
C23_NoTextareaLeft == textareas = 0

\* the fallback ran and its copy command threw; nothing is left in the body
C23_Witness ==
    /\ lastCopy.primary = "failed" /\ lastCopy.exec = "throws" /\ ~lastCopy.ret
    /\ textareas = 0 /\ gestures >= 2

\* C24: a revert of the inline editor (Escape or cancel-click) leaves every
\* request in flight; when the response of a request whose editor has been
\* reverted arrives, a success still schedules the reload and a failure
\* schedules none, and neither changes the folder row.
C24_NoCancellation ==
    [][/\ \A e \in 1..Len(editors) :
             (EscapeKey(e) \/ CancelClick(e)) =>
                \A w \in BagToSet(runs) : CopiesIn(w, runs') = CopiesIn(w, runs)
       /\ \A w \in {x \in BagToSet(runs) : x.via = "inline" /\ ~Attached(x.ed)} :
             \A resp \in Responses(w.kind) :
                Respond(w, resp) =>
                   /\ row' = row
                   /\ timers' = timers +
                         (IF resp.type = "json" /\ resp.status = "success" THEN 1 ELSE 0)]_vars

\* the editor was reverted while its request was in flight, and the
\* request's success has scheduled the reload
C24_Witness ==
    /\ page = "live" /\ timers > 0
    /\ Len(row) = 1 /\ IsLink(row[1]) /\ ~row[1].original
    /\ \E r \in Ended :
          /\ r.via = "inline" /\ Succeeded(r) /\ Last(r.ev) = "timer"
          /\ r.ed = Len(editors)

====
